---- MODULE Spec2Model ----
(***************************************************************************)
(* Model of src/data_processing.py: the summary-acquisition subsystem.     *)
(*   main, load_data        the check of the input files, the run, the save*)
(*   fetch_by_isbn          ISBN lookup with rate-limit retry              *)
(*   fetch_book_summary     ISBN first, then the scored title search       *)
(*   process_book_summaries the resumable batch run over the cache file    *)
(* Text is a sequence of one-character strings; long texts (descriptions)  *)
(* are run-length encoded so that the 2000-character cut is reachable.     *)
(* A Python value that may be None is a sequence of zero or one element.   *)
(***************************************************************************)
EXTENDS Integers, Sequences, FiniteSets, TLC

(* ------------------------------ bounds --------------------------------- *)
\* depth of the recursion of fetch_by_isbn (line 151) at which the interpreter
\* raises RecursionError: the most requests one call of fetch_by_isbn issues
MaxIsbnRequests == 3
\* largest max_summaries argument tried
MaxSummariesArg == 2
\* number of runs of process_book_summaries in one behaviour
MaxRuns == 2

(* ----------------------- configuration constants ----------------------- *)
RETRY_COUNT == 3
SUMMARY_LIMIT == 2000
ACCEPT_SCORE == 75

None == <<>>
Some(x) == <<x>>

(* --------------------- IEEE-754 double arithmetic ---------------------- *)
\* A non-negative double is the little-endian bit sequence of its value in
\* units of 2^-54 (no trailing zero bit; zero is the empty sequence).
MantBits == 53
UnitExp == 54

RECURSIVE Trim(_)
Trim(x) ==
  IF x = <<>> THEN <<>>
  ELSE IF x[Len(x)] = 0 THEN Trim(SubSeq(x, 1, Len(x) - 1)) ELSE x

RECURSIVE NatBits(_)
NatBits(n) == IF n = 0 THEN <<>> ELSE <<n % 2>> \o NatBits(n \div 2)

Bit(x, i) == IF i >= 1 /\ i <= Len(x) THEN x[i] ELSE 0

RECURSIVE AddC(_, _, _, _)
AddC(x, y, i, c) ==
  IF i > Len(x) /\ i > Len(y)
  THEN IF c = 1 THEN <<1>> ELSE <<>>
  ELSE LET s == Bit(x, i) + Bit(y, i) + c
       IN  <<s % 2>> \o AddC(x, y, i + 1, s \div 2)

BitsAdd(x, y) == Trim(AddC(x, y, 1, 0))

Shl(x, k) == IF x = <<>> THEN <<>> ELSE [i \in 1..k |-> 0] \o x

RECURSIVE MulNat(_, _)
MulNat(x, n) ==
  IF n = 0 THEN <<>>
  ELSE LET rest == Shl(MulNat(x, n \div 2), 1)
       IN  IF n % 2 = 1 THEN BitsAdd(rest, x) ELSE rest

\* round to nearest, ties to even, keeping 53 significant bits
RoundDouble(x) ==
  IF Len(x) <= MantBits THEN x
  ELSE LET d == Len(x) - MantBits
           q == SubSeq(x, d + 1, Len(x))
           half == x[d]
           sticky == \E i \in 1..(d - 1) : x[i] = 1
           up == half = 1 /\ (sticky \/ q[1] = 1)
           r == IF up THEN BitsAdd(q, <<1>>) ELSE q
       IN  Shl(r, d)

RECURSIVE GtFrom(_, _, _)
GtFrom(x, y, i) ==
  IF i = 0 THEN FALSE
  ELSE IF x[i] # y[i] THEN x[i] > y[i] ELSE GtFrom(x, y, i - 1)

FGt(x, y) == IF Len(x) # Len(y) THEN Len(x) > Len(y) ELSE GtFrom(x, y, Len(x))
FGe(x, y) == x = y \/ FGt(x, y)

RECURSIVE Rep(_, _)
Rep(s, n) == IF n = 0 THEN <<>> ELSE s \o Rep(s, n - 1)

\* the literal 0.7 is the double 0x1.6666666666666p-1
TITLE_WEIGHT == <<0>> \o Rep(<<0, 1, 1, 0>>, 13) \o <<1>>
\* the literal 0.3 is the double 0x1.3333333333333p-2
AUTHOR_WEIGHT == Rep(<<1, 1, 0, 0>>, 13) \o <<1>>

FromInt(n) == Shl(NatBits(n), UnitExp)
FMulInt(c, n) == RoundDouble(MulNat(c, n))
FAdd(x, y) == RoundDouble(BitsAdd(x, y))

\* combined_score = 0.7 * title_score + 0.3 * author_score
combined_score(title_score, author_score) ==
  FAdd(FMulInt(TITLE_WEIGHT, title_score), FMulInt(AUTHOR_WEIGHT, author_score))

(* ------------------------------- text ---------------------------------- *)
LowerChar(c) ==
  CASE c = "D" -> "d"
    [] c = "H" -> "h"
    [] c = "T" -> "t"
    [] OTHER -> c

lower(s) == [i \in DOMAIN s |-> LowerChar(s[i])]

SetMax(S) == CHOOSE m \in S : \A x \in S : x <= m

\* one row of the longest-common-subsequence table from the row above it
LcsRow(prev, c, t) ==
  LET n == Len(t)
      cand == SubSeq([k \in 1..n |->
                        IF c = t[k] THEN (IF k = 1 THEN 0 ELSE prev[k - 1]) + 1
                        ELSE prev[k]], 1, n)
  IN  SubSeq([j \in 1..n |-> SetMax({cand[k] : k \in 1..j})], 1, n)

RECURSIVE LcsRows(_, _, _, _)
LcsRows(s, t, i, prev) ==
  IF i > Len(s) THEN prev
  ELSE LcsRows(s, t, i + 1, LcsRow(prev, s[i], t))

Lcs(s, t) ==
  IF t = <<>> THEN 0
  ELSE LcsRows(s, t, 1, [j \in 1..Len(t) |-> 0])[Len(t)]

\* int(round(x)) of the non-negative rational num / den, ties to even
RoundHalfEven(num, den) ==
  LET q == num \div den
      r == num % den
  IN  IF 2 * r > den THEN q + 1
      ELSE IF 2 * r < den THEN q
      ELSE IF q % 2 = 0 THEN q ELSE q + 1

\* fuzz.ratio: 0 for an empty string, 100 for equal strings, otherwise
\* 100 * 2 * matches / (len(s1) + len(s2)) rounded to an integer
fuzz_ratio(s1, s2) ==
  IF s1 = s2 /\ s1 # <<>> THEN 100
  ELSE IF s1 = <<>> \/ s2 = <<>> THEN 0
  ELSE RoundHalfEven(200 * Lcs(s1, s2), Len(s1) + Len(s2))

\* max(seq, default=default)
MaxOf(seq, default) ==
  IF seq = <<>> THEN default ELSE SetMax({seq[i] : i \in DOMAIN seq})

\* run-length encoded text: a sequence of runs [c, n] with n >= 1
RECURSIVE TextLen(_)
TextLen(t) == IF t = <<>> THEN 0 ELSE t[1].n + TextLen(Tail(t))

TextCat(a, b) ==
  IF a = <<>> THEN b
  ELSE IF b = <<>> THEN a
  ELSE IF a[Len(a)].c = b[1].c
       THEN SubSeq(a, 1, Len(a) - 1)
            \o <<[c |-> b[1].c, n |-> a[Len(a)].n + b[1].n]>>
            \o Tail(b)
       ELSE a \o b

\* t[:k]
RECURSIVE TextTake(_, _)
TextTake(t, k) ==
  IF k <= 0 \/ t = <<>> THEN <<>>
  ELSE IF t[1].n >= k THEN <<[c |-> t[1].c, n |-> k]>>
  ELSE <<t[1]>> \o TextTake(Tail(t), k - t[1].n)

\* ' '.join(parts)
RECURSIVE TextJoinFrom(_, _)
TextJoinFrom(parts, i) ==
  IF i > Len(parts) THEN <<>>
  ELSE IF i = Len(parts) THEN parts[i]
  ELSE TextCat(TextCat(parts[i], <<[c |-> " ", n |-> 1]>>), TextJoinFrom(parts, i + 1))

TextJoin(parts) == TextJoinFrom(parts, 1)

(* ------------------------------- data ---------------------------------- *)
Run(c, n) == <<[c |-> c, n |-> n]>>

\* the forms of a 'description' field in a response body
DescMissing == [kind |-> "missing", parts |-> <<>>]
DescStr(t) == [kind |-> "str", parts |-> <<t>>]
DescDict(t) == [kind |-> "dict", parts |-> <<t>>]
DescList(ps) == [kind |-> "list", parts |-> ps]

TextA == Run("a", 15)
TextB == Run("b", 4)
TextLong == Run("c", 1999) \o Run("d", 3)
\* the description "NA"
TextNA == Run("N", 1) \o Run("A", 1)

Dune == <<"D", "u", "n", "e">>
Herb == <<"h", "e", "r", "b">>
LongWay == <<"t", "h", "e", " ", "l", "o", "n", "g", " ", "w", "a", "y">>
BobBob == <<"b", "o", "b", " ", "b", "o", "b", " ", "b", "o", "b">>
HerbKim == <<"h", "e", "r", "b", ",", " ", "k", "i", "m">>

\* BookRecords of the catalog: book_id, title, authors, isbn
Book1 == [book_id |-> 1, title |-> Dune, authors |-> Some(Herb), isbn |-> Some(<<"9", "7">>)]
Book2 == [book_id |-> 2, title |-> LongWay, authors |-> Some(BobBob), isbn |-> Some(<<>>)]
Book3 == [book_id |-> 3, title |-> Dune, authors |-> Some(Herb), isbn |-> None]
\* a row whose authors cell is blank, and a row with two authors
Book4 == [book_id |-> 4, title |-> Dune, authors |-> Some(<<>>), isbn |-> Some(<<"9", "7">>)]
Book5 == [book_id |-> 5, title |-> Dune, authors |-> Some(HerbKim), isbn |-> None]

Catalogs == {<<>>, <<Book1, Book2, Book3>>, <<Book4, Book5>>}

\* candidate documents of a search response: title, author_name, description
DocExact == [title |-> Dune, author_name |-> <<<<"H", "e", "r", "b">>>>,
             description |-> DescStr(TextA)]
Doc75 == [title |-> <<"D", "a", "n", "e">>, author_name |-> <<<<"x">>, <<"h", "a", "r", "b">>>>,
          description |-> DescList(<<TextLong, TextB>>)]
DocNear == [title |-> <<"D", "a", "n", "e">>, author_name |-> <<<<"h", "x", "x", "b">>>>,
            description |-> DescStr(TextB)]
DocLow == [title |-> <<"D", "x", "x", "e">>, author_name |-> <<>>,
           description |-> DescStr(TextB)]
DocNoDesc == [title |-> Dune, author_name |-> <<Herb>>, description |-> DescMissing]
DocWays == [title |-> <<"T", "h", "e", " ", "l", "o", "n", "g", " ", "w", "a", "y", "s">>,
            author_name |-> <<<<"z", "z", "z", "z", "b", "o", "b", "z", "z", "z", "z", "z">>>>,
            description |-> DescList(<<TextB, TextA>>)]

\* a candidate that shares no character with a queried title and has no authors
DocZero == [title |-> <<"Q", "q">>, author_name |-> <<>>, description |-> DescStr(TextB)]

AllDocs == {DocExact, Doc75, DocNear, DocLow, DocNoDesc, DocWays, DocZero}

\* the bodies the ISBN endpoint may send with HTTP 200
IsbnDescs == {DescMissing, DescStr(TextNA), DescDict(TextLong), DescList(<<TextB, TextB>>)}

\* the candidate lists the search endpoint may send with HTTP 200
DocLists ==
  {<<DocLow, DocNear, DocWays>>, <<Doc75>>, <<DocNoDesc, DocExact>>, <<DocZero>>}

\* a timeout, a connection error or an HTTP error status: all of them are
\* requests.exceptions.RequestException and take the same branch
ErrorKinds == {"error"}

Answer(kind, docs) == [kind |-> kind, docs |-> docs]

\* what the search endpoint may answer to one request
SearchOutcomes ==
  {Answer(k, <<>>) : k \in {"429", "404", "empty"} \cup ErrorKinds}
    \cup {Answer("ok", ds) : ds \in DocLists}

NoAnswer == Answer("none", <<>>)

(* ------------------------- description handling ------------------------ *)
\* lines 156-162 and 231-236: dict -> its 'value', list -> ' '.join, else as is
normalize(d) ==
  IF d.kind = "list" THEN TextJoin(d.parts)
  ELSE IF d.parts = <<>> THEN <<>>
  ELSE d.parts[1]

\* variant: the cut keeps one character too many
truncate_off_by_one(text) == TextTake(text, SUMMARY_LIMIT + 1)

\* description[:2000]
truncate(text) == TextTake(text, SUMMARY_LIMIT)

(* ------------------------------ scoring -------------------------------- *)
Truthy(opt) == opt # None /\ opt[1] # <<>>

\* s.split(',')[0]
RECURSIVE split_first(_)
split_first(s) ==
  IF s = <<>> \/ s[1] = "," THEN <<>> ELSE <<s[1]>> \o split_first(Tail(s))

\* s.strip()
RECURSIVE strip(_)
strip(s) ==
  IF s = <<>> THEN <<>>
  ELSE IF s[1] = " " THEN strip(Tail(s))
  ELSE IF s[Len(s)] = " " THEN strip(SubSeq(s, 1, Len(s) - 1))
  ELSE s

\* lines 185-186: the 'author' parameter of the search request, None when
\* no parameter is sent
params_author(author) ==
  IF Truthy(author) THEN Some(strip(split_first(author[1]))) ELSE None

title_score(title, doc) == fuzz_ratio(lower(title), lower(doc.title))

\* variant: a call without a query author counts every candidate as a full
\* author match
author_score_blank_matches(author, doc) ==
  IF Truthy(author)
  THEN MaxOf([i \in DOMAIN doc.author_name |->
                fuzz_ratio(lower(author[1]), lower(doc.author_name[i]))], 0)
  ELSE 100

author_score(author, doc) ==
  IF Truthy(author)
  THEN MaxOf([i \in DOMAIN doc.author_name |->
                fuzz_ratio(lower(author[1]), lower(doc.author_name[i]))], 0)
  ELSE 0

doc_score(title, author, doc) ==
  combined_score(title_score(title, doc), author_score(author, doc))

Queries == {<<b.title, b.authors>> : b \in {Book1, Book2, Book3, Book4, Book5}}

\* the scores of every candidate against every query, computed once
ScoreTable == [q \in Queries, d \in AllDocs |-> doc_score(q[1], q[2], d)]

Best(score, match) == [score |-> score, match |-> match]

\* variant: a response is scanned from an empty best, the best of the earlier
\* attempts is dropped
RECURSIVE scan_docs_afresh(_, _, _, _, _)
scan_docs_afresh(title, author, docs, i, best) ==
  IF i > Len(docs) THEN best
  ELSE LET sc == ScoreTable[<<title, author>>, docs[i]]
           kept == IF i = 1 THEN Best(<<>>, None) ELSE best
       IN  scan_docs_afresh(title, author, docs, i + 1,
                            IF FGt(sc, kept.score) THEN Best(sc, Some(docs[i])) ELSE kept)

\* lines 216-227: the scan of one response, from the best kept so far
RECURSIVE scan_docs(_, _, _, _, _)
scan_docs(title, author, docs, i, best) ==
  IF i > Len(docs) THEN best
  ELSE LET sc == ScoreTable[<<title, author>>, docs[i]]
       IN  scan_docs(title, author, docs, i + 1,
                     IF FGt(sc, best.score) THEN Best(sc, Some(docs[i])) ELSE best)

\* line 230: best_score >= 75 and best_match
good_match(best) == FGe(best.score, FromInt(ACCEPT_SCORE)) /\ best.match # None

\* lines 230-239: the description returned by an attempt, None when it returns nothing
accepted(best) ==
  IF good_match(best) /\ normalize(best.match[1].description) # <<>>
  THEN Some(truncate(normalize(best.match[1].description)))
  ELSE None

(* ----------------------------- cache file ------------------------------ *)
Entry(row, summary, source) ==
  [book_id |-> row.book_id, title |-> row.title, authors |-> row.authors,
   isbn |-> row.isbn, summary |-> summary, source |-> source]

RECURSIVE StripZeros(_)
StripZeros(digits) ==
  IF Len(digits) > 1 /\ digits[1] = "0" THEN StripZeros(Tail(digits)) ELSE digits

\* cells that pd.read_csv reads as the missing value NaN (its default
\* na_values: '', 'NA', 'N/A', 'NULL', 'NaN', 'None', 'n/a', 'nan', 'null', ...);
\* of these the descriptions of the model can be 'NA'
NaValues == {<<>>, TextNA}

\* to_csv then read_csv: an empty or missing isbn cell is read as missing,
\* a digit string is read as a number; a summary cell that holds one of the
\* NaValues is read as NaN, the empty text, which to_csv writes as an empty
\* cell; the other columns come back as written
read_csv(file) ==
  [i \in DOMAIN file |->
     [file[i] EXCEPT !.isbn = IF Truthy(@) THEN Some(StripZeros(@[1])) ELSE None,
                     !.summary = IF @ \in NaValues THEN <<>> ELSE @]]

Ids(entries) == {entries[i].book_id : i \in DOMAIN entries}

\* variant: the last row of every book_id is kept
drop_duplicates_keep_last(entries) ==
  LET keep(i) == \A j \in (i + 1)..Len(entries) : entries[j].book_id # entries[i].book_id
      RECURSIVE From(_)
      From(i) == IF i > Len(entries) THEN <<>>
                 ELSE (IF keep(i) THEN <<entries[i]>> ELSE <<>>) \o From(i + 1)
  IN  From(1)

\* drop_duplicates('book_id'): the first row of every book_id is kept
drop_duplicates(entries) ==
  LET keep(i) == \A j \in 1..(i - 1) : entries[j].book_id # entries[i].book_id
      RECURSIVE From(_)
      From(i) == IF i > Len(entries) THEN <<>>
                 ELSE (IF keep(i) THEN <<entries[i]>> ELSE <<>>) \o From(i + 1)
  IN  From(1)

\* variant: an inner join, rows without a cache entry are dropped
merge_inner(books, cache) ==
  LET matches(b) == SelectSeq(cache, LAMBDA e : e.book_id = b.book_id)
      rows(b) == [k \in DOMAIN matches(b) |->
                    [book_id |-> b.book_id, summary |-> Some(matches(b)[k].summary),
                     source |-> Some(matches(b)[k].source)]]
      RECURSIVE From(_)
      From(i) == IF i > Len(books) THEN <<>> ELSE rows(books[i]) \o From(i + 1)
  IN  From(1)

\* pd.merge(books_df, cache, on='book_id', how='left')
merge_left(books, cache) ==
  LET matches(b) == SelectSeq(cache, LAMBDA e : e.book_id = b.book_id)
      rows(b) == IF matches(b) = <<>>
                 THEN <<[book_id |-> b.book_id, summary |-> None, source |-> None]>>
                 ELSE [k \in DOMAIN matches(b) |->
                         [book_id |-> b.book_id, summary |-> Some(matches(b)[k].summary),
                          source |-> Some(matches(b)[k].source)]]
      RECURSIVE From(_)
      From(i) == IF i > Len(books) THEN <<>> ELSE rows(books[i]) \o From(i + 1)
  IN  From(1)

\* variant: sampling with replacement
samples_with_replacement(rows, n) ==
  {[k \in 1..n |-> rows[f[k]]] : f \in [1..n -> DOMAIN rows]}

\* every order of every choice of n rows: DataFrame.sample(n)
samples(rows, n) ==
  {[k \in 1..n |-> rows[f[k]]] :
     f \in {g \in [1..n -> DOMAIN rows] : \A a, b \in 1..n : a # b => g[a] # g[b]}}

Min(a, b) == IF a <= b THEN a ELSE b

(* ------------------------------- state --------------------------------- *)
VARIABLES
  data_files,        \* the required input files that exist in the data folder
  output_file,       \* books_with_summaries.csv: None while it does not exist
  books_df,          \* the catalog handed to process_book_summaries
  max_summaries,     \* its max_summaries argument
  cache_file,        \* the cache file: None while it does not exist
  runs,              \* runs of process_book_summaries started so far
  pc,                \* position of the run
  cache_df,          \* the cache as loaded at the start of the run
  books_to_process,  \* the sampled rows of this run
  next_row,          \* index of the row the loop is at
  new_entries,       \* entries collected in this run
  result,            \* the frame the run returned, None before it returns
  row,               \* the row being resolved
  isbn_log,          \* answers of the ISBN endpoint within this call
  isbn_result,       \* what fetch_by_isbn returned
  search_log,        \* answers of the search endpoint within this call
  retry_answer,      \* after a 429 of the search endpoint: its answer to the next request
  attempt,           \* loop variable of the search loop
  best,              \* best_score and best_match
  seen,              \* the candidates scored so far within this call, in order
  description,       \* the description field the returned summary was made from
  ret                \* what fetch_book_summary returned

vars == <<data_files, output_file, books_df, max_summaries, cache_file, runs, pc, cache_df, books_to_process,
          next_row, new_entries, result, row, isbn_log, isbn_result, search_log,
          retry_answer, attempt, best, seen, description, ret>>

run_vars == <<data_files, output_file, books_df, max_summaries, cache_file, runs, cache_df, books_to_process,
              next_row, new_entries, result>>

call_vars == <<row, isbn_log, isbn_result, search_log, retry_answer, attempt, best,
               seen, description, ret>>

NoRet == [summary |-> None, source |-> "pending"]
NoBest == Best(<<>>, None)

\* line 51
required_files == {"books.csv", "ratings.csv", "book_tags.csv", "tags.csv"}

\* lines 49-57: True when none of the required files is missing
check_data_files(files) == required_files \ files = {}

\* variant: the data is loaded whatever files are there
load_data_unchecked(files) == TRUE

\* lines 60-64: whether load_data returns frames rather than four None
load_data(files) == check_data_files(files)

Init ==
  /\ data_files \in SUBSET required_files
  /\ output_file = None
  /\ books_df \in (IF check_data_files(data_files) THEN Catalogs ELSE {<<>>})
  /\ max_summaries \in 0..MaxSummariesArg
  /\ cache_file = None
  /\ runs = 0
  /\ pc = "idle"
  /\ cache_df = <<>>
  /\ books_to_process = <<>>
  /\ next_row = 1
  /\ new_entries = <<>>
  /\ result = None
  /\ row = None
  /\ isbn_log = <<>>
  /\ isbn_result = None
  /\ search_log = <<>>
  /\ retry_answer = NoAnswer
  /\ attempt = 0
  /\ best = NoBest
  /\ seen = <<>>
  /\ description = None
  /\ ret = NoRet

Count(log, kind) == Cardinality({i \in DOMAIN log : log[i] = kind})

isbn_requests == Len(isbn_log)
isbn_waits == Count(isbn_log, "429")
search_requests == Len(search_log)
search_waits == Count(search_log, "429")

(* ----------------------- process_book_summaries ------------------------ *)
\* lines 256-261: the cache file is read, or an empty frame is made
load_cache == IF cache_file = None THEN <<>> ELSE read_csv(cache_file[1])

\* variant: the cached rows are not filtered out
remaining_unfiltered(books, cache) == books

\* line 271: the rows whose book_id is not in the loaded cache
remaining(books, cache) == SelectSeq(books, LAMBDA b : b.book_id \notin Ids(cache))

ResetCall ==
  /\ row' = None
  /\ isbn_log' = <<>>
  /\ isbn_result' = None
  /\ search_log' = <<>>
  /\ retry_answer' = NoAnswer
  /\ attempt' = 0
  /\ best' = NoBest
  /\ seen' = <<>>
  /\ description' = None
  /\ ret' = NoRet

(* -------------------------------- main --------------------------------- *)
\* lines 345-347: load_data returned None, main returns
MainMissingFiles ==
  /\ pc = "idle"
  /\ ~load_data(data_files)
  /\ pc' = "exited"
  /\ UNCHANGED <<run_vars, call_vars>>

\* lines 321-331 and 358: the rows whose summary is not NaN are written
SaveResults ==
  /\ pc = "returned"
  /\ output_file' = Some(SelectSeq(result[1], LAMBDA r : r.summary \notin {None, Some(<<>>)}))
  /\ pc' = "saved"
  /\ UNCHANGED <<data_files, books_df, max_summaries, cache_file, runs, cache_df,
                 books_to_process, next_row, new_entries, result, call_vars>>

\* lines 345-355 and 256-267: the cache already holds max_summaries entries
StartRunFull ==
  /\ pc \in {"idle", "saved", "aborted", "raised"}
  /\ load_data(data_files)
  /\ runs < MaxRuns
  /\ Len(load_cache) >= max_summaries
  /\ runs' = runs + 1
  /\ cache_df' = load_cache
  /\ result' = Some(merge_left(books_df, load_cache))
  /\ pc' = "returned"
  /\ books_to_process' = <<>>
  /\ next_row' = 1
  /\ new_entries' = <<>>
  /\ UNCHANGED <<data_files, output_file, books_df, max_summaries, cache_file>>
  /\ ResetCall

\* lines 345-355 and 256-277: the batch of this run is sampled
StartRunSelect ==
  /\ pc \in {"idle", "saved", "aborted", "raised"}
  /\ load_data(data_files)
  /\ runs < MaxRuns
  /\ Len(load_cache) < max_summaries
  /\ runs' = runs + 1
  /\ cache_df' = load_cache
  /\ LET remaining_summaries == max_summaries - Len(load_cache)
         rest == remaining(books_df, load_cache)
     IN  \E sample \in samples(rest, Min(remaining_summaries, Len(rest))) :
           /\ books_to_process' = sample
           /\ pc' = IF sample = <<>> THEN "merge" ELSE "call"
  /\ next_row' = 1
  /\ new_entries' = <<>>
  /\ result' = None
  /\ UNCHANGED <<data_files, output_file, books_df, max_summaries, cache_file>>
  /\ ResetCall

(* -------------------------- fetch_book_summary ------------------------- *)
\* lines 183-189: the search loop is entered
EnterSearch ==
  /\ pc' = "search"
  /\ UNCHANGED <<search_log, retry_answer, attempt, best, seen, description, ret>>

\* lines 282 and 177: the call for the next row, with an ISBN
CallWithIsbn ==
  /\ pc = "call"
  /\ Truthy(books_to_process[next_row].isbn)
  /\ row' = Some(books_to_process[next_row])
  /\ pc' = "isbn"
  /\ UNCHANGED <<run_vars, isbn_log, isbn_result, search_log, retry_answer, attempt, best,
                 seen, description, ret>>

\* lines 282 and 177: the call for the next row, without an ISBN
CallWithoutIsbn ==
  /\ pc = "call"
  /\ ~Truthy(books_to_process[next_row].isbn)
  /\ row' = Some(books_to_process[next_row])
  /\ EnterSearch
  /\ UNCHANGED <<run_vars, isbn_log, isbn_result>>

(* ----------------------------- fetch_by_isbn --------------------------- *)
\* variant: a 404 is asked again like a 429
Isbn404Retried ==
  /\ pc = "isbn"
  /\ isbn_requests + 1 < MaxIsbnRequests
  /\ isbn_log' = Append(isbn_log, "404")
  /\ UNCHANGED <<run_vars, pc, row, isbn_result, search_log, retry_answer, attempt,
                 best, seen, description, ret>>

\* lines 145-146: 404, None is returned
Isbn404 ==
  /\ pc = "isbn"
  /\ isbn_log' = Append(isbn_log, "404")
  /\ isbn_result' = None
  /\ EnterSearch
  /\ UNCHANGED <<run_vars, row>>

\* lines 148-151: 429, sleep, then the function calls itself
Isbn429 ==
  /\ pc = "isbn"
  /\ isbn_requests + 1 < MaxIsbnRequests
  /\ isbn_log' = Append(isbn_log, "429")
  /\ UNCHANGED <<run_vars, pc, row, isbn_result, search_log, retry_answer, attempt,
                 best, seen, description, ret>>

\* line 151: the 429 that is answered at the deepest frame the interpreter
\* allows; the next call of the function raises RecursionError, which is not a
\* RequestException: lines 166-171 and 241-248 do not catch it, and neither
\* does the loop of lines 281-298
IsbnRecursionError ==
  /\ pc = "isbn"
  /\ isbn_requests + 1 = MaxIsbnRequests
  /\ isbn_log' = Append(isbn_log, "429")
  /\ pc' = "raised"
  /\ UNCHANGED <<run_vars, row, isbn_result, search_log, retry_answer, attempt,
                 best, seen, description, ret>>

\* lines 153 and 166-171: a timeout or an HTTP error, None is returned
IsbnError ==
  /\ pc = "isbn"
  /\ \E kind \in ErrorKinds : isbn_log' = Append(isbn_log, kind)
  /\ isbn_result' = None
  /\ EnterSearch
  /\ UNCHANGED <<run_vars, row>>

\* variant: the description found by ISBN is not returned, the search goes on
IsbnFoundSearchesOn ==
  /\ pc = "isbn"
  /\ \E d \in IsbnDescs :
       /\ normalize(d) # <<>>
       /\ isbn_result' = Some(truncate(normalize(d)))
  /\ isbn_log' = Append(isbn_log, "ok")
  /\ EnterSearch
  /\ UNCHANGED <<run_vars, row>>

\* lines 155-164 and 179-180: 200 with a description
IsbnFound ==
  /\ pc = "isbn"
  /\ \E d \in IsbnDescs :
       /\ normalize(d) # <<>>
       /\ description' = Some(d)
       /\ isbn_result' = Some(truncate(normalize(d)))
  /\ ret' = [summary |-> isbn_result', source |-> "isbn_search"]
  /\ isbn_log' = Append(isbn_log, "ok")
  /\ pc' = "resolved"
  /\ UNCHANGED <<run_vars, row, search_log, retry_answer, attempt, best, seen>>

\* lines 155-164 and 179: 200 without a description, None is returned
IsbnNoDescription ==
  /\ pc = "isbn"
  /\ \E d \in IsbnDescs : normalize(d) = <<>>
  /\ isbn_log' = Append(isbn_log, "ok")
  /\ isbn_result' = None
  /\ EnterSearch
  /\ UNCHANGED <<run_vars, row>>

(* ------------------------------ search loop ---------------------------- *)
\* one request of the loop is answered; an endpoint that answers 429 fixes
\* what it will answer to the request after it
Answered(answer) ==
  /\ pc = "search"
  /\ attempt < RETRY_COUNT
  /\ retry_answer # NoAnswer => answer = retry_answer
  /\ search_log' = Append(search_log, answer.kind)
  /\ retry_answer' \in (IF answer.kind = "429" THEN SearchOutcomes ELSE {NoAnswer})

\* continue, and line 250 once the loop is over
NextAttempt ==
  /\ attempt' = attempt + 1
  /\ IF attempt + 1 = RETRY_COUNT
     THEN pc' = "resolved" /\ ret' = [summary |-> None, source |-> "not_found"]
     ELSE pc' = "search" /\ ret' = ret

\* variant: a 429 is retried without consuming an attempt
Search429NotCounted ==
  /\ Answered(Answer("429", <<>>))
  /\ UNCHANGED <<run_vars, pc, row, isbn_log, isbn_result, attempt, best, seen,
                 description, ret>>

\* lines 202-205: 429, sleep, continue
Search429 ==
  /\ Answered(Answer("429", <<>>))
  /\ NextAttempt
  /\ UNCHANGED <<run_vars, row, isbn_log, isbn_result, best, seen, description>>

\* lines 207-208: 404, continue
Search404 ==
  /\ Answered(Answer("404", <<>>))
  /\ NextAttempt
  /\ UNCHANGED <<run_vars, row, isbn_log, isbn_result, best, seen, description>>

\* lines 211-213: numFound is 0, continue
SearchEmpty ==
  /\ Answered(Answer("empty", <<>>))
  /\ NextAttempt
  /\ UNCHANGED <<run_vars, row, isbn_log, isbn_result, best, seen, description>>

\* lines 209 and 241-248: a RequestException, continue
SearchError ==
  /\ \E kind \in ErrorKinds : Answered(Answer(kind, <<>>))
  /\ NextAttempt
  /\ UNCHANGED <<run_vars, row, isbn_log, isbn_result, best, seen, description>>

scanned(docs) == scan_docs(row[1].title, row[1].authors, docs, 1, best)

\* lines 216-239: the candidates are scored and the best one is accepted
SearchAccept ==
  /\ \E docs \in DocLists :
       /\ Answered(Answer("ok", docs))
       /\ accepted(scanned(docs)) # None
       /\ best' = scanned(docs)
       /\ seen' = seen \o docs
       /\ description' = Some(scanned(docs).match[1].description)
       /\ ret' = [summary |-> accepted(scanned(docs)), source |-> "title_search"]
  /\ pc' = "resolved"
  /\ UNCHANGED <<run_vars, row, isbn_log, isbn_result, attempt>>

\* lines 216-239: the candidates are scored and none is accepted
SearchReject ==
  /\ \E docs \in DocLists :
       /\ Answered(Answer("ok", docs))
       /\ accepted(scanned(docs)) = None
       /\ best' = scanned(docs)
       /\ seen' = seen \o docs
  /\ NextAttempt
  /\ UNCHANGED <<run_vars, row, isbn_log, isbn_result, description>>

(* ------------------ process_book_summaries, continued ------------------ *)
\* variant: an entry is kept for every call, also when it found nothing
collected_always(entries, r, res) ==
  Append(entries, Entry(r, IF res.summary # None THEN res.summary[1] ELSE <<>>, res.source))

\* lines 288-296: new_entries after the result of a call for row r
collected(entries, r, res) ==
  IF res.summary # None
  THEN Append(entries, Entry(r, res.summary[1], res.source))
  ELSE entries

\* variant: the cache file is rewritten as soon as an entry is collected
CollectAndFlush ==
  /\ pc = "resolved"
  /\ new_entries' = collected(new_entries, row[1], ret)
  /\ cache_file' = IF ret.summary # None
                   THEN Some(drop_duplicates(cache_df \o new_entries'))
                   ELSE cache_file
  /\ next_row' = next_row + 1
  /\ pc' = IF next_row = Len(books_to_process) THEN "merge" ELSE "call"
  /\ ResetCall
  /\ UNCHANGED <<data_files, output_file, books_df, max_summaries, runs, cache_df,
                 books_to_process, result>>

\* lines 288-298: the result of the call is collected
Collect ==
  /\ pc = "resolved"
  /\ new_entries' = collected(new_entries, row[1], ret)
  /\ next_row' = next_row + 1
  /\ pc' = IF next_row = Len(books_to_process) THEN "merge" ELSE "call"
  /\ ResetCall
  /\ UNCHANGED <<data_files, output_file, books_df, max_summaries, cache_file, runs, cache_df,
                 books_to_process, result>>

\* line 303
updated_cache == drop_duplicates(cache_df \o new_entries)

\* lines 301-305: the merged cache is written
WriteCache ==
  /\ pc = "merge"
  /\ new_entries # <<>>
  /\ cache_file' = Some(updated_cache)
  /\ pc' = "reload"
  /\ UNCHANGED <<data_files, output_file, books_df, max_summaries, runs, cache_df, books_to_process,
                 next_row, new_entries, result, call_vars>>

\* lines 306-307: nothing is written
NoNewEntries ==
  /\ pc = "merge"
  /\ new_entries = <<>>
  /\ pc' = "reload"
  /\ UNCHANGED <<run_vars, call_vars>>

\* lines 310-318: the cache file is read again and joined onto the catalog
ReloadJoin ==
  /\ pc = "reload"
  /\ cache_file # None
  /\ result' = Some(merge_left(books_df, read_csv(cache_file[1])))
  /\ pc' = "returned"
  /\ UNCHANGED <<data_files, output_file, books_df, max_summaries, cache_file, runs, cache_df,
                 books_to_process, next_row, new_entries, call_vars>>

\* line 310: the file does not exist, pd.read_csv raises FileNotFoundError
ReloadMissing ==
  /\ pc = "reload"
  /\ cache_file = None
  /\ pc' = "aborted"
  /\ UNCHANGED <<run_vars, call_vars>>

Next ==
  \/ MainMissingFiles
  \/ SaveResults
  \/ StartRunFull
  \/ StartRunSelect
  \/ CallWithIsbn
  \/ CallWithoutIsbn
  \/ Isbn404
  \/ Isbn429
  \/ IsbnRecursionError
  \/ IsbnError
  \/ IsbnFound
  \/ IsbnNoDescription
  \/ Search429
  \/ Search404
  \/ SearchEmpty
  \/ SearchError
  \/ SearchAccept
  \/ SearchReject
  \/ Collect
  \/ WriteCache
  \/ NoNewEntries
  \/ ReloadJoin
  \/ ReloadMissing

Spec == Init /\ [][Next]_vars

(* --------- the merge of line 303 applied to arbitrary frames ----------- *)
\* longest frames tried as inputs of the merge
MergeLen == 2

MergeEntries ==
  {Entry(b, t, "isbn_search") : b \in {Book1, Book2, Book3}, t \in {TextA, TextB}}

Frames == UNION {[1..n -> MergeEntries] : n \in 0..MergeLen}

Unique(entries) ==
  \A i, j \in DOMAIN entries : i # j => entries[i].book_id # entries[j].book_id

\* the run stands before lines 301-304 with any loaded cache with unique
\* book_ids and any list of new entries
InitMerge ==
  /\ data_files = required_files
  /\ output_file = None
  /\ books_df = <<Book1, Book2, Book3>>
  /\ max_summaries = MaxSummariesArg
  /\ cache_df \in {read_csv(f) : f \in {g \in Frames : Unique(g)}}
  /\ cache_file = IF cache_df = <<>> THEN None ELSE Some(cache_df)
  /\ new_entries \in Frames
  /\ runs = MaxRuns
  /\ pc = "merge"
  /\ books_to_process = <<>>
  /\ next_row = 1
  /\ result = None
  /\ row = None
  /\ isbn_log = <<>>
  /\ isbn_result = None
  /\ search_log = <<>>
  /\ retry_answer = NoAnswer
  /\ attempt = 0
  /\ best = NoBest
  /\ seen = <<>>
  /\ description = None
  /\ ret = NoRet

InitAny == Init \/ InitMerge

SpecMerge == InitAny /\ [][Next]_vars

TypeOK ==
  /\ pc \in {"idle", "call", "isbn", "search", "resolved", "merge", "reload",
              "returned", "saved", "exited", "aborted", "raised"}
  /\ runs \in 0..MaxRuns
  /\ attempt \in 0..RETRY_COUNT

(* ------------------------------- claims -------------------------------- *)
Last(log) == log[Len(log)]

\* C1: within a call the ISBN lookup comes before every search request, and
\* when the ISBN lookup returned a non-empty description the call has returned
\* that description as 'isbn_search' without any search request.
C1_IsbnBeforeSearch ==
  /\ pc = "isbn" => search_log = <<>>
  /\ (row # None /\ Truthy(row[1].isbn) /\ search_log # <<>>)
       => (isbn_log # <<>> /\ isbn_result = None)
  /\ isbn_result # None
       => /\ pc = "resolved"
          /\ ret = [summary |-> isbn_result, source |-> "isbn_search"]
          /\ isbn_result[1] # <<>>
          /\ search_log = <<>>

C1_Witness ==
  /\ pc = "resolved"
  /\ isbn_result # None
  /\ ret.source = "isbn_search"
  /\ isbn_log = <<"429", "ok">>

\* C2: one call issues at most RETRY_COUNT search requests, every answer that
\* is not accepted (404, empty result, 429, error, rejected candidates) uses up
\* exactly one attempt, and when the attempts are used up the call has
\* returned (None, 'not_found').
C2_SearchBudget ==
  /\ search_requests <= RETRY_COUNT
  /\ pc = "search" => (attempt < RETRY_COUNT /\ search_requests = attempt)
  /\ attempt = RETRY_COUNT
       => /\ pc = "resolved"
          /\ search_requests = RETRY_COUNT
          /\ ret = [summary |-> None, source |-> "not_found"]
  /\ (pc = "resolved" /\ ret.source = "not_found") => attempt = RETRY_COUNT

C2_Witness ==
  /\ pc = "resolved"
  /\ ret = [summary |-> None, source |-> "not_found"]
  /\ search_log = <<"429", "404", "error">>

\* C3 (as claimed): one call of fetch_by_isbn issues at most two requests and
\* waits for the cooldown at most once, whatever the endpoint answers.
C3_AtMostOneIsbnRetry ==
  /\ isbn_requests <= 2
  /\ isbn_waits <= 1

\* exact tenfold combined score of a candidate: 7 * title + 3 * author
ExactScore10(title, author, doc) ==
  7 * title_score(title, doc) + 3 * author_score(author, doc)

\* C4 (as claimed): when the last response of a call carried candidates, the
\* call returns 'title_search' exactly when the best candidate's combined
\* score 0.7 * title + 0.3 * author is at least 75 (75 included) and the
\* candidate has a non-empty description; otherwise it returns 'not_found'.
C4_ThresholdExact ==
  (pc = "resolved" /\ search_log # <<>> /\ Last(search_log) = "ok" /\ best.match # None)
    => LET ok == /\ ExactScore10(row[1].title, row[1].authors, best.match[1])
                      >= 10 * ACCEPT_SCORE
                 /\ normalize(best.match[1].description) # <<>>
       IN  /\ ok => ret = [summary |-> Some(truncate(normalize(best.match[1].description))),
                          source |-> "title_search"]
           /\ ~ok => ret = [summary |-> None, source |-> "not_found"]

\* C5: a call of the resolver is only ever made for a row whose book_id is
\* neither in the cache loaded at the start of the run nor in the cache file,
\* and the sampled batch holds no cached book_id.
C5_OnlyUncachedFetched ==
  pc \in {"call", "isbn", "search", "resolved"}
    => /\ \A i \in DOMAIN books_to_process :
            /\ books_to_process[i].book_id \notin Ids(cache_df)
            /\ cache_file # None => books_to_process[i].book_id \notin Ids(cache_file[1])
       /\ row # None => row[1].book_id \notin Ids(cache_df)

C5_Witness ==
  /\ runs = 2
  /\ cache_df # <<>>
  /\ pc = "search"
  /\ search_log # <<>>

\* C6: after the merge is written the cache file has one entry per book_id,
\* every entry loaded at the start of the run is still there, unchanged and in
\* place (so it wins over a new entry with its book_id), and the book_ids are
\* those of the loaded cache and of the new entries.
C6_MergeKeepsFirst ==
  /\ cache_file # None => Unique(cache_file[1])
  /\ (pc = "reload" /\ new_entries # <<>>)
       => /\ cache_file # None
          /\ Len(cache_file[1]) >= Len(cache_df)
          /\ \A i \in DOMAIN cache_df : cache_file[1][i] = cache_df[i]
          /\ Ids(cache_file[1]) = Ids(cache_df) \cup Ids(new_entries)

C6_Witness ==
  /\ pc = "reload"
  /\ \E i \in DOMAIN cache_df : \E j \in DOMAIN new_entries :
       /\ new_entries[j].book_id = cache_df[i].book_id
       /\ new_entries[j].summary # cache_df[i].summary
       /\ cache_file[1][i].summary = cache_df[i].summary

\* res is books left-joined with a cache of unique book_ids
IsLeftJoin(res, books, cache) ==
  /\ Len(res) = Len(books)
  /\ \A i \in DOMAIN books :
       /\ res[i].book_id = books[i].book_id
       /\ books[i].book_id \notin Ids(cache)
            => (res[i].summary = None /\ res[i].source = None)
       /\ books[i].book_id \in Ids(cache)
            => \E k \in DOMAIN cache :
                 /\ cache[k].book_id = books[i].book_id
                 /\ res[i].summary = Some(cache[k].summary)
                 /\ res[i].source = Some(cache[k].source)

\* C7: a run that starts with at least max_summaries entries in the cache
\* returns at once: no call of the resolver, the cache file as it was, and as
\* result the catalog left-joined with the entries of the cache.
C7_FullCacheReturnsAtOnce ==
  [][(runs' = runs + 1 /\ Len(load_cache) >= max_summaries)
       => /\ pc' = "returned"
          /\ cache_file' = cache_file
          /\ row' = None /\ isbn_log' = <<>> /\ search_log' = <<>>
          /\ books_to_process' = <<>>
          /\ result' # None
          /\ IsLeftJoin(result'[1], books_df, load_cache)]_vars

C7_Witness ==
  /\ runs = 2
  /\ pc = "returned"
  /\ cache_df # <<>>
  /\ Len(cache_df) >= max_summaries
  /\ Len(books_df) > Len(cache_df)
  /\ result # None

Uncached == {i \in DOMAIN books_df : books_df[i].book_id \notin Ids(cache_df)}

\* C8: a run that starts below max_summaries selects
\* min(max_summaries - |cache|, |uncached rows|) rows, all different and all
\* uncached, resolves every one of them before the merge, and the cache file
\* never holds more than max_summaries entries.
C8_BatchSize ==
  /\ (pc \in {"call", "isbn", "search", "resolved", "merge", "reload"}
        /\ Len(cache_df) < max_summaries)
       => /\ Len(books_to_process)
               = Min(max_summaries - Len(cache_df), Cardinality(Uncached))
          /\ \A i, j \in DOMAIN books_to_process :
               i # j => books_to_process[i].book_id # books_to_process[j].book_id
          /\ \A i \in DOMAIN books_to_process :
               \E k \in Uncached : books_df[k] = books_to_process[i]
          /\ next_row <= Len(books_to_process) + 1
          /\ pc \in {"merge", "reload"} => next_row = Len(books_to_process) + 1
  /\ cache_file # None => Len(cache_file[1]) <= max_summaries

C8_Witness ==
  /\ pc = "merge"
  /\ cache_df # <<>>
  /\ Len(books_df) = 3
  /\ Len(books_to_process) = 1
  /\ Len(new_entries) = 1

\* C9 (as claimed): a run that started without a cache file does not abort;
\* it returns a row for every BookRecord of the catalog.
C9_RunWithoutCacheCompletes ==
  /\ pc # "aborted"
  /\ (pc = "returned" /\ cache_df = <<>>)
       => (result # None /\ Len(result[1]) = Len(books_df))

\* C10 (as claimed): when an endpoint answers 429 once and 200 to the request
\* after it, the call returns what that 200 response gives: on the ISBN path
\* its description, on the search path the accepted candidate's description,
\* also when the 429 was the answer of the last attempt.
C10_RateLimitThenOk ==
  /\ (pc = "resolved" /\ isbn_log = <<"429", "ok">> /\ isbn_result # None)
       => ret = [summary |-> isbn_result, source |-> "isbn_search"]
  /\ (pc = "resolved" /\ search_waits = 1 /\ Last(search_log) = "429"
        /\ retry_answer.kind = "ok" /\ accepted(scanned(retry_answer.docs)) # None)
       => ret = [summary |-> accepted(scanned(retry_answer.docs)),
                 source |-> "title_search"]

\* r is one of the three results a call may return
ReturnForm(r) ==
  \/ r.source \in {"isbn_search", "title_search"} /\ r.summary # None /\ r.summary[1] # <<>>
  \/ r.source = "not_found" /\ r.summary = None

\* the part of C11 that does not depend on how often the ISBN endpoint answers
\* 429: a returned call gave one of the three results, and a 404 or an error
\* of the ISBN endpoint, like every failure of a search attempt that is not the
\* last, is followed by the search loop
C11_HandledOutcomes ==
  /\ pc = "resolved" => ReturnForm(ret)
  /\ (isbn_log # <<>> /\ Last(isbn_log) \in {"404", "error"})
       => (pc \in {"search", "resolved"} /\ (pc = "resolved" => search_log # <<>>))
  /\ (pc = "search" /\ search_log # <<>>) => attempt = search_requests

\* C11 (as claimed): whatever the two endpoints answer (200, 404, 429, timeout,
\* connection error, other HTTP errors), fetch_book_summary never raises; it
\* returns (description, 'isbn_search'), (description, 'title_search') or
\* (None, 'not_found'), the summary being None exactly when the source is
\* 'not_found', and a failure of the ISBN lookup or of a search attempt that is
\* not the last does not keep the later steps from running.
C11_NeverRaises ==
  /\ pc # "raised"
  /\ C11_HandledOutcomes

\* C12: while one of the required input files is missing, main returns before
\* process_book_summaries is called: no request is sent to either endpoint and
\* neither the cache file nor the output file is written.
C12_MissingFilesAbort ==
  ~check_data_files(data_files)
    => /\ pc \in {"idle", "exited"}
       /\ runs = 0
       /\ row = None /\ isbn_log = <<>> /\ search_log = <<>>
       /\ cache_file = None
       /\ output_file = None

C12_Witness ==
  /\ pc = "exited"
  /\ data_files = required_files \ {"tags.csv"}

\* the i-th character of a run-length encoded text
RECURSIVE CharAt(_, _)
CharAt(t, i) == IF i <= t[1].n THEN t[1].c ELSE CharAt(Tail(t), i - t[1].n)

\* the positions at which a run of t ends
Ends(t) == {TextLen(SubSeq(t, 1, k)) : k \in DOMAIN t}

\* number of characters before part k of parts joined by single spaces
RECURSIVE Offset(_, _)
Offset(parts, k) == IF k = 1 THEN 0 ELSE Offset(parts, k - 1) + TextLen(parts[k - 1]) + 1

\* the text a description field stands for: the string, the 'value' of the
\* object, or the strings of the list joined by single spaces; given by its
\* length, its characters and the positions at which it may change character
FullLen(d) ==
  IF d.kind = "list"
  THEN IF d.parts = <<>> THEN 0 ELSE Offset(d.parts, Len(d.parts)) + TextLen(d.parts[Len(d.parts)])
  ELSE TextLen(d.parts[1])

FullCharAt(d, i) ==
  IF d.kind = "list"
  THEN LET k == CHOOSE j \in DOMAIN d.parts :
                  /\ Offset(d.parts, j) < i
                  /\ i <= Offset(d.parts, j) + TextLen(d.parts[j]) + 1
       IN  IF i = Offset(d.parts, k) + TextLen(d.parts[k]) + 1 THEN " "
           ELSE CharAt(d.parts[k], i - Offset(d.parts, k))
  ELSE CharAt(d.parts[1], i)

FullEnds(d) ==
  IF d.kind = "list"
  THEN UNION {{Offset(d.parts, k)} \cup {Offset(d.parts, k) + e : e \in Ends(d.parts[k])}
                : k \in DOMAIN d.parts}
  ELSE Ends(d.parts[1])

\* C13: on the ISBN path and on the search path alike a description given as a
\* string, as an object with a 'value' or as a list of strings (joined by
\* single spaces) is one string, and every summary a call returns is at most
\* 2000 characters long and is the first 2000 characters of that string.
C13_SummaryIsPrefix ==
  (pc = "resolved" /\ ret.summary # None)
    => /\ description # None
       /\ description[1].kind \in {"str", "dict", "list"}
       /\ LET s == ret.summary[1]
              d == description[1]
              E == Ends(s) \cup FullEnds(d)
          IN  /\ TextLen(s) <= 2000
              /\ TextLen(s) = Min(2000, FullLen(d))
              /\ \A i \in {1} \cup E \cup {e + 1 : e \in E} :
                   (1 <= i /\ i <= TextLen(s)) => CharAt(s, i) = FullCharAt(d, i)

C13_Witness ==
  /\ pc = "resolved"
  /\ ret.source = "title_search"
  /\ description # None
  /\ description[1].kind = "list"
  /\ FullLen(description[1]) > 2000
  /\ TextLen(ret.summary[1]) = 2000

\* C14: for a row whose ISBN is absent or empty no request goes to the ISBN
\* endpoint and the call is in the search (or has returned from it); when the
\* ISBN endpoint answers 404, fetch_by_isbn returns None after that one
\* request, which is the last of the call to the ISBN endpoint.
C14_IsbnShortCircuits ==
  /\ (row # None /\ ~Truthy(row[1].isbn))
       => /\ isbn_log = <<>>
          /\ pc \in {"search", "resolved"}
          /\ pc = "resolved" => search_log # <<>>
  /\ \A i \in DOMAIN isbn_log :
       isbn_log[i] = "404"
         => /\ i = Len(isbn_log)
            /\ isbn_result = None
            /\ pc \in {"search", "resolved"}

C14_Witness ==
  /\ pc = "search"
  /\ isbn_log = <<"404">>
  /\ search_log # <<>>

\* for every query and candidate: how many of the values 0 and the combined
\* scores of the candidates against the query lie below the candidate's
\* combined score (0 exactly when that score is 0), computed once
RankTable ==
  [q \in Queries, d \in AllDocs |->
     Cardinality({x \in {FromInt(0)} \cup {ScoreTable[q, e] : e \in AllDocs} :
                    FGt(ScoreTable[q, d], x)})]

\* rank of the combined score of the k-th candidate seen in the call
SeenRank(k) == RankTable[<<row[1].title, row[1].authors>>, seen[k]]

\* k is the first-seen candidate of maximal combined score among those seen
FirstMax(k) ==
  /\ \A j \in DOMAIN seen : SeenRank(j) <= SeenRank(k)
  /\ \A j \in 1..(k - 1) : SeenRank(j) < SeenRank(k)

\* best_score and best_match are the k-th candidate seen and its score
BestIs(k) ==
  best = Best(ScoreTable[<<row[1].title, row[1].authors>>, seen[k]], Some(seen[k]))

\* the description a 'title_search' result was made from is the best candidate's
ReturnedIsBest ==
  (pc = "resolved" /\ ret.source = "title_search")
    => (best.match # None /\ description = Some(best.match[1].description))

\* C15 (as claimed): at every point of a call best_match and best_score are
\* the first-seen candidate of maximal combined score among all candidates
\* seen so far in any attempt of the call, and its score (ties keep the
\* earlier candidate, a later attempt replaces only with a strictly higher
\* score); the description returned as 'title_search' is that candidate's.
C15_BestIsFirstMax ==
  /\ (row # None /\ seen # <<>>)
       => \E k \in DOMAIN seen : FirstMax(k) /\ BestIs(k)
  /\ ReturnedIsBest

\* C15 (amended): best_score is the maximum of 0 and the combined scores seen
\* so far in any attempt; while no candidate scored above 0, best_match is
\* None; otherwise best_match is the first-seen candidate of maximal combined
\* score; the description returned as 'title_search' is that candidate's.
C15_BestIsFirstPositiveMax ==
  /\ (row # None /\ pc \in {"search", "resolved"})
       => \/ /\ \A j \in DOMAIN seen : SeenRank(j) = 0
             /\ best = NoBest
          \/ \E k \in DOMAIN seen : FirstMax(k) /\ SeenRank(k) > 0 /\ BestIs(k)
  /\ ReturnedIsBest

\* a later attempt met a candidate with the score of the best one and a lower
\* one, and the best of the first attempt is still kept
C15_Witness ==
  /\ pc = "search"
  /\ attempt = 2
  /\ Len(seen) >= 3
  /\ best.match = Some(seen[1])
  /\ \E j \in 2..Len(seen) : SeenRank(j) = SeenRank(1) /\ seen[j] # seen[1]
  /\ \E j \in 2..Len(seen) : SeenRank(j) < SeenRank(1)

\* C16: within a run the cache file changes in one step only, the write of
\* the merge, which is taken once, after the resolver has returned for every
\* row of the batch; while the batch is resolved the file is as it was when
\* the run loaded it.
C16_SingleWriteAfterBatch ==
  [][/\ cache_file' # cache_file
          => /\ pc = "merge" /\ pc' = "reload"
             /\ runs' = runs
             /\ next_row = Len(books_to_process) + 1
             /\ row = None
             /\ new_entries # <<>>
     /\ (pc' = "merge" /\ pc # "merge") => (pc = "resolved" \/ runs' = runs + 1)
     /\ pc = "reload" => cache_file' = cache_file
     /\ pc' \in {"call", "isbn", "search", "resolved", "merge"}
          => (cache_file' = cache_file /\ cache_df' = load_cache')]_vars

C16_Witness ==
  /\ pc = "reload"
  /\ runs = 1
  /\ Len(books_to_process) = 2
  /\ Len(new_entries) = 2
  /\ cache_file # None
  /\ Len(cache_file[1]) = Len(new_entries)

\* C17 (as claimed): the cache file only grows: every entry that is in the
\* file before a step of a run is still in it afterwards with the same
\* book_id, summary and source.
C17_CacheOnlyGrows ==
  [][cache_file # None
       => /\ cache_file' # None
          /\ \A i \in DOMAIN cache_file[1] :
               \E j \in DOMAIN cache_file'[1] :
                 /\ cache_file'[1][j].book_id = cache_file[1][i].book_id
                 /\ cache_file'[1][j].summary = cache_file[1][i].summary
                 /\ cache_file'[1][j].source = cache_file[1][i].source]_vars

\* what does hold: the book_ids and sources of the file are kept
C17_IdsAndSourcesKept ==
  [][cache_file # None
       => /\ cache_file' # None
          /\ \A i \in DOMAIN cache_file[1] :
               \E j \in DOMAIN cache_file'[1] :
                 /\ cache_file'[1][j].book_id = cache_file[1][i].book_id
                 /\ cache_file'[1][j].source = cache_file[1][i].source
                 /\ cache_file'[1][j].summary \in {cache_file[1][i].summary, <<>>}]_vars

\* the author similarity as C18 states it: the best ratio between the first
\* comma-split name of the query author and the names of the candidate
first_name_score(author, doc) ==
  IF Truthy(author)
  THEN MaxOf([i \in DOMAIN doc.author_name |->
                fuzz_ratio(lower(params_author(author)[1]), lower(doc.author_name[i]))], 0)
  ELSE 0

\* the combined scores that follow from first_name_score, computed once
FirstNameScoreTable ==
  [q \in Queries, d \in AllDocs |->
     combined_score(title_score(q[1], d), first_name_score(q[2], d))]

\* C18 (as claimed): when a query author is given, the author similarity that
\* enters the combined score of a candidate is the best ratio between the
\* first comma-split name of the query author (the value sent as the 'author'
\* parameter) and the candidate's author names, 0 when it has none; so the
\* score kept with the best candidate is the one computed from that name.
C18_AuthorScoreFromFirstName ==
  (row # None /\ Truthy(row[1].authors) /\ best.match # None)
    => best.score = FirstNameScoreTable[<<row[1].title, row[1].authors>>, best.match[1]]

\* C19: every entry collected for the cache has a non-empty summary and the
\* source 'isbn_search' or 'title_search'; a row whose call returned
\* 'not_found' is in no entry and not in the cache file, and after the batch
\* every row of it that got no entry is still among the rows a later run
\* selects from.
C19_OnlyResolvedCached ==
  /\ \A i \in DOMAIN new_entries :
       /\ new_entries[i].summary # <<>>
       /\ new_entries[i].source \in {"isbn_search", "title_search"}
  /\ (pc = "resolved" /\ ret.source = "not_found")
       => /\ row[1].book_id \notin Ids(new_entries)
          /\ cache_file # None => row[1].book_id \notin Ids(cache_file[1])
  /\ pc \in {"merge", "reload", "returned", "saved", "aborted"}
       => \A i \in DOMAIN books_to_process :
            books_to_process[i].book_id \notin Ids(new_entries)
              => /\ books_to_process[i].book_id \notin Ids(load_cache)
                 /\ \E k \in DOMAIN remaining(books_df, load_cache) :
                      remaining(books_df, load_cache)[k] = books_to_process[i]

C19_Witness ==
  /\ pc = "saved"
  /\ Len(books_to_process) = 2
  /\ Len(new_entries) = 1
  /\ cache_file # None
  /\ Len(cache_file[1]) = 1

\* the combined scores of the candidates when the author similarity is 0
TitleOnlyScoreTable ==
  [q \in Queries, d \in AllDocs |-> combined_score(title_score(q[1], d), 0)]

Seventy == FromInt(70)

\* C20: in a call without a query author every candidate is scored with an
\* author similarity of 0, so no combined score is above 70, the search never
\* accepts, and the call returns (description, 'isbn_search') or
\* (None, 'not_found').
C20_NoAuthorNeverAccepts ==
  (row # None /\ ~Truthy(row[1].authors))
    => /\ ret.source \in {"pending", "isbn_search", "not_found"}
       /\ pc = "resolved" => ret.source \in {"isbn_search", "not_found"}
       /\ best.match # None
            => /\ best.score
                   = TitleOnlyScoreTable[<<row[1].title, row[1].authors>>, best.match[1]]
               /\ ~FGt(best.score, Seventy)
               /\ ~good_match(best)

C20_Witness ==
  /\ pc = "resolved"
  /\ ~Truthy(row[1].authors)
  /\ ret = [summary |-> None, source |-> "not_found"]
  /\ best.match # None
  /\ best.score = Seventy
  /\ \E k \in DOMAIN seen :
       /\ seen[k].title = row[1].title
       /\ normalize(seen[k].description) # <<>>

====
